---- MODULE Spec2Model ----
(***************************************************************************)
(* pva: the per-file lint pipeline (source/index.ts: parseFileContents,    *)
(* runInDirectory, buildSwagger, runSpectral, lintFile, formatLine,        *)
(* formatResults) and the command-line front end (source/cli.ts) that runs *)
(* lintFile over the input files with p-map and reports the results.       *)
(*                                                                         *)
(* A path is a record [dir, name]: dir is the sequence of directory names  *)
(* relative to the directory the process was started in, name the file     *)
(* name split at its dots.  A string the program builds is a TLA+ string;  *)
(* the report formatResults builds is the sequence of the chunks appended  *)
(* to `output`, the empty sequence being the empty string.                 *)
(***************************************************************************)
EXTENDS Integers, Sequences, FiniteSets, TLC

VARIABLES
    files,                    \* cli.ts: the file list handed to pMap
    isAutoDetectedFiles,      \* cli.ts:60
    mainpc,                   \* position of the cli.ts module body
    pc,                       \* position of each pMap mapper / lintFile call
    cwd,                      \* process.cwd(): the process-wide working directory
    originalWorkingDirectory, \* runInDirectory's local, per task, while the call lasts
    fileText,                 \* what fs.readFile gave each task
    contents,                 \* lintFile's `contents`, per task: the preprocessed text
    config,                   \* lintFile's `config`, per task
    spectral,                 \* index.ts:668: the rules loaded in the one Spectral instance
    engineCalls,              \* the delegated calls each task has made so far, in order
    settled,                  \* how each mapper call ended
    results,                  \* cli.ts: results / formatResults' argument
    console,                  \* what console.log has printed, in order
    exitCode,                 \* the status the process ends with
    output                    \* the value the last formatResults call returned

vars == <<files, isAutoDetectedFiles, mainpc, pc, cwd, originalWorkingDirectory,
          fileText, contents, config, spectral, engineCalls, settled, results,
          console, exitCode, output>>

(***************************************************************************)
(* Bounds.                                                                 *)
(***************************************************************************)
MaxFiles == 2
MaxMessages == 3
MaxCalls == 2

(***************************************************************************)
(* The file system the run sees.                                           *)
(***************************************************************************)
StartDirectory == <<>>

Directories == {<<>>, <<"a">>}

\* The files on disk, in the order globby lists them.
PathList ==
    << [dir |-> <<"a">>, name |-> <<"pet", "yaml">>],
       [dir |-> <<"a">>, name |-> <<"store", "yml">>],
       [dir |-> <<>>,    name |-> <<"api", "json">>],
       [dir |-> <<>>,    name |-> <<"notes", "txt">>] >>

PathPool == {PathList[i] : i \in 1..Len(PathList)}

Undefined == "<undefined>"

\* What a file may hold.  A text is [bom, tabs, syntaxOk, value]: whether it
\* starts with a byte-order mark, whether it holds tab characters, whether
\* the rest is well-formed, and the value it then parses to (null, or an
\* object with some of the fields openapi and swagger).
ContentPool ==
    { [bom |-> FALSE, tabs |-> FALSE, syntaxOk |-> FALSE, value |-> [type |-> "null"]],
      [bom |-> FALSE, tabs |-> FALSE, syntaxOk |-> TRUE,  value |-> [type |-> "null"]],
      [bom |-> FALSE, tabs |-> FALSE, syntaxOk |-> TRUE,  value |-> [type |-> "object"]],
      [bom |-> TRUE,  tabs |-> FALSE, syntaxOk |-> TRUE,
       value |-> [type |-> "object", openapi |-> "3.0.0"]],
      [bom |-> FALSE, tabs |-> TRUE,  syntaxOk |-> TRUE,
       value |-> [type |-> "object", swagger |-> "2.0"]],
      [bom |-> FALSE, tabs |-> FALSE, syntaxOk |-> TRUE,
       value |-> [type |-> "object", swagger |-> "1.2"]] }

(***************************************************************************)
(* Errors.                                                                 *)
(***************************************************************************)
Error(message) == [isError |-> TRUE, message |-> message]

UnableToParse == "Unable to parse file"
\* index.ts:729 (the source quotes the two property names with backquotes)
DescriptorMissing == "Neither a 'openapi' property nor a 'swagger' property with the value of \"2.0\" was found"
SyntaxErrorMessage == "Unexpected token"
TypeErrorMessage == "Cannot read properties of null"
NoSuchFile == "ENOENT: no such file or directory"
EngineFailure == "delegated engine failed"

(***************************************************************************)
(* node:path and the working directory.                                    *)
(***************************************************************************)
\* path.extname(filepath).slice(1)
ExtName(filepath) ==
    IF Len(filepath.name) > 1 THEN filepath.name[Len(filepath.name)] ELSE ""

\* path.dirname(filepath)
DirName(filepath) == filepath.dir

\* The directory a relative directory names while the process is in `from`.
Resolve(from, dir) == from \o dir

\* fs.readFile of a relative path finds the file only if it exists under the
\* working directory of the moment.
FileExists(from, filepath) ==
    [dir |-> Resolve(from, filepath.dir), name |-> filepath.name] \in PathPool

(***************************************************************************)
(* parseFileContents: a record [ok, value] or [ok, error].                 *)
(***************************************************************************)
\* Mutant of stripBom: the text as it is.
stripBomNot(text) == text

\* strip-bom
stripBom(text) == [text EXCEPT !.bom = FALSE]

\* preprocessFile: the tab characters are replaced by spaces
preprocessFile(text) == [text EXCEPT !.tabs = FALSE]

Parse(text) ==
    IF text.syntaxOk
    THEN [ok |-> TRUE, value |-> text.value]
    ELSE [ok |-> FALSE, error |-> Error(SyntaxErrorMessage)]

\* parse-json (JSON.parse): a byte-order mark is an unexpected token, a tab
\* is white space
parseJson(text) ==
    IF text.bom THEN [ok |-> FALSE, error |-> Error(SyntaxErrorMessage)] ELSE Parse(text)

\* js-yaml load: skips a byte-order mark itself and rejects a tab used for
\* indentation
parseYaml(text) ==
    IF text.tabs THEN [ok |-> FALSE, error |-> Error(SyntaxErrorMessage)] ELSE Parse(text)

parseFileContents(text, filepath) ==
    LET fileExtension == ExtName(filepath)
    IN  IF fileExtension = "json" THEN parseJson(text)
        ELSE IF fileExtension = "yaml" \/ fileExtension = "yml" THEN parseYaml(text)
        ELSE [ok |-> FALSE, error |-> Error(UnableToParse)]

\* data.<key>: undefined when the object has no such field.
Get(value, key) == IF key \in DOMAIN value THEN value[key] ELSE Undefined

Truthy(v) == v \notin {Undefined, ""}

\* lintFile:728, for a parsed value that is an object
HasDescriptor(value) == Truthy(Get(value, "openapi")) \/ Get(value, "swagger") = "2.0"

\* lintFile:725-730: what the call does with the text it has read, up to the
\* descriptor check: [ok |-> TRUE, value] or the error it throws.
LoadDocument(text, filepath) ==
    LET parsed == parseFileContents(preprocessFile(stripBom(text)), filepath)
    IN  IF ~parsed.ok THEN parsed
        ELSE IF parsed.value.type = "null"
             THEN [ok |-> FALSE, error |-> Error(TypeErrorMessage)]
        ELSE IF ~HasDescriptor(parsed.value)
             THEN [ok |-> FALSE, error |-> Error(DescriptorMissing)]
        ELSE parsed

(***************************************************************************)
(* Configurations (Options, index.ts:34-666).  A plain object is           *)
(* Object(fields), fields a function from keys to configurations; any      *)
(* other value, a status or a case-convention array, is Value(v).          *)
(***************************************************************************)
Object(fields) == [type |-> "object", fields |-> fields]

Value(v) == [type |-> "value", value |-> v]

\* config.ts:3-112, the rules of two categories
defaultConfig ==
    Object([shared |->
                Object([operations |->
                    Object([no_summary |-> Value("warning"),
                            operation_id_case_convention |->
                                Value(<<"off", "lower_camel_case">>)])]),
            spectral |->
                Object([rules |->
                    Object(("openapi-tags" :> Value("warning"))
                           @@ ("operation-description" :> Value("hint")))])])

\* A configuration of the user's: a case convention chosen, one rule of
\* spectral.rules switched off and one added.
UserConfig ==
    Object([shared |->
                Object([operations |->
                    Object([operation_id_case_convention |->
                                Value(<<"warning", "lower_snake_case">>)])]),
            spectral |->
                Object([rules |->
                    Object(("openapi-tags" :> Value("off"))
                           @@ ("oas3-schema" :> Value("error")))])])

\* The `config` arguments lintFile is called with: the default {} of
\* index.ts:724 and the user's configuration.
OverridePool == {Object(<<>>), UserConfig}

\* Mutant of mergeOptions: the keys of the first level only, as
\* Object.assign({}, a, b) merges.
mergeShallow(a, b) ==
    Object([k \in DOMAIN a.fields \cup DOMAIN b.fields |->
               IF k \in DOMAIN b.fields THEN b.fields[k] ELSE a.fields[k]])

\* merge-options: plain objects are merged key by key, recursively; any
\* other value of the second argument replaces the first argument's.
RECURSIVE mergeOptions(_, _)
mergeOptions(a, b) ==
    IF a.type = "object" /\ b.type = "object"
    THEN Object([k \in DOMAIN a.fields \cup DOMAIN b.fields |->
                    IF k \notin DOMAIN b.fields THEN a.fields[k]
                    ELSE IF k \notin DOMAIN a.fields THEN b.fields[k]
                    ELSE mergeOptions(a.fields[k], b.fields[k])])
    ELSE b

Missing == [type |-> "undefined"]

\* config.<key>.<key>...: undefined when a key on the way is absent
RECURSIVE Lookup(_, _)
Lookup(config_, path) ==
    IF path = <<>> THEN config_
    ELSE IF config_.type = "object" /\ Head(path) \in DOMAIN config_.fields
         THEN Lookup(config_.fields[Head(path)], Tail(path))
         ELSE Missing

\* The rules spectralValidator.setup loads into the Spectral instance for a
\* configuration: its spectral.rules.
RulesetOf(config_) == Lookup(config_, <<"spectral", "rules">>)

\* index.ts:668-670: the instance as constructed, no rule loaded
NoRuleset == [type |-> "none"]

(***************************************************************************)
(* Lint messages and Lint Results.  A LintMessage is [line, message,       *)
(* rule]; a Result is a record with `version` and any of the four buckets  *)
(* errors, warnings, infos, hints (index.ts:709-722).                      *)
(***************************************************************************)
Buckets == {"errors", "warnings", "infos", "hints"}

\* The line and text of the messages formatResults is tried on.
MessagePool ==
    { [line |-> 2,  message |-> "bb"],
      [line |-> 10, message |-> "a"] }

\* string-width of an ASCII string
stringWidth(string) == Len(string)

\* num-sort
numberSortAscending(left, right) == left - right

\* Mutant of plur: the plural whatever the count.
plurAlways(word, count) == word \o "s"

\* plur(word, count), for the regular nouns the report uses
plur(word, count) == IF count = 1 THEN word ELSE word \o "s"

\* The destructuring default `bucket = []` of formatResults:770 and cli.ts:92.
BucketOf(result, key) == IF key \in DOMAIN result THEN result[key] ELSE <<>>

Max(a, b) == IF a >= b THEN a ELSE b

\* Array.prototype.sort is stable: an element goes after every element that
\* does not compare greater than it.
CompareLines(a, b) == numberSortAscending(a.line, b.line)

\* Mutant of InsertMessage: an element goes before the elements equal to it.
RECURSIVE InsertMessageUnstable(_, _)
InsertMessageUnstable(sorted, x) ==
    IF sorted = <<>> THEN <<x>>
    ELSE IF CompareLines(sorted[Len(sorted)], x) < 0 THEN Append(sorted, x)
    ELSE Append(InsertMessageUnstable(SubSeq(sorted, 1, Len(sorted) - 1), x),
                sorted[Len(sorted)])

RECURSIVE InsertMessage(_, _)
InsertMessage(sorted, x) ==
    IF sorted = <<>> THEN <<x>>
    ELSE IF CompareLines(sorted[Len(sorted)], x) <= 0 THEN Append(sorted, x)
    ELSE Append(InsertMessage(SubSeq(sorted, 1, Len(sorted) - 1), x), sorted[Len(sorted)])

RECURSIVE SortMessages(_)
SortMessages(bucket) ==
    IF bucket = <<>> THEN <<>>
    ELSE InsertMessage(SortMessages(SubSeq(bucket, 1, Len(bucket) - 1)), bucket[Len(bucket)])

\* formatResults:770-776: the new array of pairs, every bucket present and sorted
SortedBuckets(rs) ==
    [i \in 1..Len(rs) |->
        <<rs[i][1],
          [version  |-> rs[i][2].version,
           errors   |-> SortMessages(BucketOf(rs[i][2], "errors")),
           warnings |-> SortMessages(BucketOf(rs[i][2], "warnings")),
           infos    |-> SortMessages(BucketOf(rs[i][2], "infos")),
           hints    |-> SortMessages(BucketOf(rs[i][2], "hints"))]>>]

\* formatResults:772-775 sort the caller's own arrays: what the caller's
\* collection holds once formatResults has run.
SortedInPlace(rs) ==
    [i \in 1..Len(rs) |->
        <<rs[i][1],
          [k \in DOMAIN rs[i][2] |->
              IF k \in Buckets THEN SortMessages(rs[i][2][k]) ELSE rs[i][2][k]]>>]

\* formatResults:779-782
RECURSIVE Total(_, _)
Total(rs, key) ==
    IF rs = <<>> THEN 0
    ELSE Total(SubSeq(rs, 1, Len(rs) - 1), key) + Len(rs[Len(rs)][2][key])

\* Mutant of LastLineWidth: the width of the first element of the bucket.
FirstLineWidth(bucket) ==
    IF bucket = <<>> THEN 0 ELSE stringWidth(ToString(bucket[1].line))

\* stringWidth(lastItem(bucket)?.line.toString())
LastLineWidth(bucket) ==
    IF bucket = <<>> THEN 0 ELSE stringWidth(ToString(bucket[Len(bucket)].line))

\* formatResults:784-790
RECURSIVE MaxLineWidth(_)
MaxLineWidth(rs) ==
    IF rs = <<>> THEN 0
    ELSE LET r == rs[Len(rs)][2]
         IN  Max(Max(Max(LastLineWidth(r.errors), LastLineWidth(r.warnings)),
                     Max(LastLineWidth(r.infos), LastLineWidth(r.hints))),
                 MaxLineWidth(SubSeq(rs, 1, Len(rs) - 1)))

RECURSIVE WidestMessage(_)
WidestMessage(messages) ==
    IF messages = <<>> THEN 0
    ELSE Max(stringWidth(messages[Len(messages)].message),
             WidestMessage(SubSeq(messages, 1, Len(messages) - 1)))

\* formatResults:792-794
RECURSIVE MaxMessageWidth(_)
MaxMessageWidth(rs) ==
    IF rs = <<>> THEN 0
    ELSE Max(WidestMessage(rs[Len(rs)][2].errors \o rs[Len(rs)][2].warnings),
             MaxMessageWidth(SubSeq(rs, 1, Len(rs) - 1)))

\* Mutant of CompareResults: more messages first, whatever their severity.
CompareResultsByTotal(a, b) ==
    (Len(b.errors) + Len(b.warnings) + Len(b.infos) + Len(b.hints))
    - (Len(a.errors) + Len(a.warnings) + Len(a.infos) + Len(a.hints))

\* formatResults:802-816: the comparator of the per-file blocks
CompareResults(a, b) ==
    IF Len(a.errors) = Len(b.errors)
    THEN IF Len(a.warnings) = Len(b.warnings)
         THEN IF Len(a.infos) = Len(b.infos)
              THEN Len(b.hints) - Len(a.hints)
              ELSE Len(b.infos) - Len(a.infos)
         ELSE Len(b.warnings) - Len(a.warnings)
    ELSE Len(b.errors) - Len(a.errors)

RECURSIVE InsertResult(_, _)
InsertResult(sorted, x) ==
    IF sorted = <<>> THEN <<x>>
    ELSE IF CompareResults(sorted[Len(sorted)][2], x[2]) <= 0 THEN Append(sorted, x)
    ELSE Append(InsertResult(SubSeq(sorted, 1, Len(sorted) - 1), x), sorted[Len(sorted)])

RECURSIVE SortResults(_)
SortResults(rs) ==
    IF rs = <<>> THEN <<>>
    ELSE InsertResult(SortResults(SubSeq(rs, 1, Len(rs) - 1)), rs[Len(rs)])

\* " ".repeat(count), for a count that is not negative
RECURSIVE Spaces(_)
Spaces(count) == IF count <= 0 THEN "" ELSE " " \o Spaces(count - 1)

\* formatLine (index.ts:748-755): the two repeat counts and the line's text.
\* String.prototype.repeat throws a RangeError when its count is negative.
formatLine(type, m, maxLineWidth, maxMessageWidth) ==
    LET padLeft  == maxLineWidth - stringWidth(ToString(m.line))
        padRight == maxMessageWidth - stringWidth(m.message)
    IN  [type |-> type, line |-> m.line, message |-> m.message, rule |-> m.rule,
         padLeft |-> padLeft, padRight |-> padRight,
         throws |-> padLeft < 0 \/ padRight < 0,
         text |-> type \o " " \o Spaces(padLeft) \o ToString(m.line) \o " "
                  \o m.message \o Spaces(padRight) \o " " \o m.rule]

FormatLines(type, bucket, maxLineWidth, maxMessageWidth) ==
    [i \in 1..Len(bucket) |-> formatLine(type, bucket[i], maxLineWidth, maxMessageWidth)]

\* formatResults:817-855: one file's block, hints first and errors last
Block(entry, maxLineWidth, maxMessageWidth) ==
    [chunk |-> "block", file |-> entry[1],
     lines |-> FormatLines("info", entry[2].hints, maxLineWidth, maxMessageWidth)
               \o FormatLines("info", entry[2].infos, maxLineWidth, maxMessageWidth)
               \o FormatLines("warning", entry[2].warnings, maxLineWidth, maxMessageWidth)
               \o FormatLines("error", entry[2].errors, maxLineWidth, maxMessageWidth)]

Blocks(rs) ==
    LET ordered == SortResults(rs)
        maxLineWidth == MaxLineWidth(rs)
        maxMessageWidth == MaxMessageWidth(rs)
    IN  [i \in 1..Len(ordered) |-> Block(ordered[i], maxLineWidth, maxMessageWidth)]

\* formatResults:857-873
Statistic(color, total, noun) ==
    IF total > 0
    THEN <<[chunk |-> "statistic", color |-> color,
            text |-> ToString(total) \o " " \o plur(noun, total)]>>
    ELSE <<>>

Statistics(rs) ==
    Statistic("cyan", Total(rs, "hints"), "hint")
    \o Statistic("cyan", Total(rs, "infos"), "info")
    \o Statistic("yellow", Total(rs, "warnings"), "warning")
    \o Statistic("red", Total(rs, "errors"), "error")

GrandTotal(rs) ==
    Total(rs, "errors") + Total(rs, "warnings") + Total(rs, "infos") + Total(rs, "hints")

\* Whether formatResults(rs) ends in a RangeError instead of returning.
FormatResultsThrows(rs) ==
    LET sorted == SortedBuckets(rs)
        blocks == Blocks(sorted)
    IN  /\ GrandTotal(sorted) # 0
        /\ \E i \in 1..Len(blocks) :
             \E j \in 1..Len(blocks[i].lines) : blocks[i].lines[j].throws

\* formatResults (index.ts:757-880): the returned string as the sequence of
\* the chunks appended to `output`; <<>> is the empty string.  isTTY stands
\* for `process.stdout.isTTY && !process.env.CI`.
formatResults(rs, isTTY) ==
    LET sorted == SortedBuckets(rs)
        statistics == Statistics(sorted)
    IN  IF GrandTotal(sorted) = 0 THEN <<>>
        ELSE <<[chunk |-> "newline"]>>
             \o (IF isTTY THEN <<[chunk |-> "iTerm.setCwd"]>> ELSE <<>>)
             \o Blocks(sorted)
             \o (IF Len(statistics) > 0
                 THEN <<[chunk |-> "newline"]>> \o statistics
                 ELSE <<>>)

(***************************************************************************)
(* The command-line run (cli.ts).  pMap is called without options, so      *)
(* every mapper is started at once; each suspends at lintFile's awaits:    *)
(* the file read, spectralValidator.setup, and the delegated call inside   *)
(* each of the two runInDirectory calls.                                   *)
(***************************************************************************)
Tasks == 1..Len(files)

NotRead == [unread |-> TRUE]

Pending == [tag |-> "pending"]

\* What the delegated engines may report for a file (validate and
\* formatResultsAsObject): a bucket is absent when it has no message.
ResultPool ==
    { [version |-> "3.0.0"],
      [version |-> "3.0.0", errors |-> <<[line |-> 2, message |-> "a", rule |-> "r"]>>],
      [version |-> "3.0.0", warnings |-> <<[line |-> 2, message |-> "bb", rule |-> "r"]>>,
                            hints |-> <<[line |-> 10, message |-> "a", rule |-> "r"]>>],
      [version |-> "3.0.0", hints |-> <<[line |-> 2, message |-> "a", rule |-> "r"]>>] }

SupportedByGlob == {"yaml", "yml", "json"}

\* cli.ts:48: the configuration cosmiconfig found, or defaultConfig
CliConfigs == {defaultConfig, UserConfig}

\* The paths of PathList at the positions in `chosen`, in the list's order.
RECURSIVE Selection(_, _)
Selection(chosen, n) ==
    IF n = 0 THEN <<>>
    ELSE IF n \in chosen THEN Append(Selection(chosen, n - 1), PathList[n])
         ELSE Selection(chosen, n - 1)

FileLists ==
    {Selection(chosen, Len(PathList)) :
        chosen \in {c \in SUBSET (1..Len(PathList)) : Cardinality(c) <= MaxFiles}}

Init ==
    /\ files \in FileLists
    /\ isAutoDetectedFiles \in BOOLEAN
    \* cli.ts:62-66: auto-detection globs **/*.{yaml,yml,json} only
    /\ isAutoDetectedFiles => \A i \in 1..Len(files) : ExtName(files[i]) \in SupportedByGlob
    /\ mainpc = "validateConfig"
    /\ pc = [i \in 1..Len(files) |-> "idle"]
    /\ cwd = StartDirectory
    /\ originalWorkingDirectory = [i \in 1..Len(files) |-> StartDirectory]
    /\ fileText = [i \in 1..Len(files) |-> NotRead]
    /\ contents = [i \in 1..Len(files) |-> NotRead]
    \* cli.ts:46-54 and 73: every call is given the one configuration found
    /\ \E found \in CliConfigs : config = [i \in 1..Len(files) |-> found]
    /\ spectral = NoRuleset
    /\ engineCalls = [i \in 1..Len(files) |-> <<>>]
    /\ settled = [i \in 1..Len(files) |-> Pending]
    /\ results = <<>>
    /\ console = <<>>
    /\ exitCode = 0
    /\ output = <<>>

\* cli.ts:54-58
ConfigInvalid ==
    /\ mainpc = "validateConfig"
    /\ mainpc' = "exited"
    /\ exitCode' = 2
    /\ UNCHANGED <<files, isAutoDetectedFiles, pc, cwd, originalWorkingDirectory,
                   fileText, contents, config, spectral, engineCalls, settled,
                   results, console, output>>

\* cli.ts:71: pMap starts a mapper for every file; each calls lintFile, which
\* issues its read and suspends.
StartPMap ==
    /\ mainpc = "validateConfig"
    /\ mainpc' = "pMap"
    /\ pc' = [i \in Tasks |-> "readFile"]
    /\ UNCHANGED <<files, isAutoDetectedFiles, cwd, originalWorkingDirectory,
                   fileText, contents, config, spectral, engineCalls, settled,
                   results, console, exitCode, output>>

\* cli.ts:75: whether the mapper's catch prints the error
Logged(error) ==
    error.isError /\ ~(isAutoDetectedFiles /\ error.message = DescriptorMissing)

\* cli.ts:74-80: lintFile rejected with `error`
Reject(i, error) ==
    /\ console' = IF Logged(error)
                  THEN Append(console, [kind |-> "error", text |-> error.message, task |-> i])
                  ELSE console
    /\ settled' = [settled EXCEPT ![i] = [tag |-> "rejected", error |-> error]]
    /\ pc' = [pc EXCEPT ![i] = "settled"]
    /\ originalWorkingDirectory' = [originalWorkingDirectory EXCEPT ![i] = StartDirectory]

\* A delegated call and the argument the claims look at.
Call(engine, argument) == [engine |-> engine, argument |-> argument]

\* index.ts:725-736: the read ends; strip, preprocess, parse, check the
\* descriptor, merge the options and call spectralValidator.setup.
ReadFile(i) ==
    /\ mainpc = "pMap"
    /\ pc[i] = "readFile"
    /\ IF ~FileExists(cwd, files[i])
       THEN /\ Reject(i, Error(NoSuchFile))
            /\ UNCHANGED <<fileText, contents, config, engineCalls>>
       ELSE \E text \in ContentPool :
              /\ fileText' = [fileText EXCEPT ![i] = text]
              /\ contents' = [contents EXCEPT ![i] = preprocessFile(stripBom(text))]
              /\ IF LoadDocument(text, files[i]).ok
                 THEN /\ config' = [config EXCEPT ![i] = mergeOptions(defaultConfig, @)]
                      /\ pc' = [pc EXCEPT ![i] = "setup"]
                      /\ engineCalls' =
                            [engineCalls EXCEPT ![i] =
                                Append(@, Call("setup", mergeOptions(defaultConfig, config[i])))]
                      /\ UNCHANGED <<settled, console, originalWorkingDirectory>>
                 ELSE /\ Reject(i, LoadDocument(text, files[i]).error)
                      /\ UNCHANGED <<config, engineCalls>>
    /\ UNCHANGED <<files, isAutoDetectedFiles, mainpc, cwd, spectral, results,
                   exitCode, output>>

\* runInDirectory:687-689: save the working directory, change it, call the
\* callback and suspend on it.  process.chdir throws on a missing directory.
EnterDirectory(i, engine, argument) ==
    LET target == Resolve(cwd, DirName(files[i]))
    IN  IF target \in Directories
        THEN /\ originalWorkingDirectory' = [originalWorkingDirectory EXCEPT ![i] = cwd]
             /\ cwd' = target
             /\ engineCalls' = [engineCalls EXCEPT ![i] = Append(@, Call(engine, argument))]
             /\ pc' = [pc EXCEPT ![i] = engine]
             /\ UNCHANGED <<settled, console>>
        ELSE /\ Reject(i, Error(NoSuchFile))
             /\ UNCHANGED <<cwd, engineCalls>>

\* runInDirectory:689-691: the callback resolved; restore and return.
LeaveDirectory(i, next) ==
    /\ cwd' = originalWorkingDirectory[i]
    /\ originalWorkingDirectory' = [originalWorkingDirectory EXCEPT ![i] = StartDirectory]
    /\ pc' = [pc EXCEPT ![i] = next]
    /\ UNCHANGED <<engineCalls, settled, console>>

\* runInDirectory:689: the callback rejected; the await throws.
CallbackRejects(i) ==
    /\ Reject(i, Error(EngineFailure))
    /\ UNCHANGED <<cwd, engineCalls>>

\* index.ts:734-740: setup settles, the rules of the call's configuration
\* loaded into the Spectral instance; on success lintFile calls buildSwagger
\* with the parsed document.
SetupSettles(i) ==
    /\ mainpc = "pMap"
    /\ pc[i] = "setup"
    /\ \E resolved \in BOOLEAN :
         IF resolved
         THEN /\ spectral' = RulesetOf(config[i])
              /\ EnterDirectory(i, "buildSwaggerObject", Parse(contents[i]).value)
         ELSE /\ CallbackRejects(i)
              /\ UNCHANGED spectral
    /\ UNCHANGED <<files, isAutoDetectedFiles, mainpc, fileText, contents, config,
                   results, exitCode, output>>

\* index.ts:705: buildSwaggerObject settles inside runInDirectory.
BuildSwaggerSettles(i) ==
    /\ mainpc = "pMap"
    /\ pc[i] = "buildSwaggerObject"
    /\ \E resolved \in BOOLEAN :
         IF resolved THEN LeaveDirectory(i, "built") ELSE CallbackRejects(i)
    /\ UNCHANGED <<files, isAutoDetectedFiles, mainpc, fileText, contents, config,
                   spectral, results, exitCode, output>>

\* index.ts:740-742: lintFile resumes after buildSwagger and calls runSpectral.
CallRunSpectral(i) ==
    /\ mainpc = "pMap"
    /\ pc[i] = "built"
    /\ EnterDirectory(i, "spectral.run", contents[i])
    /\ UNCHANGED <<files, isAutoDetectedFiles, mainpc, fileText, contents, config,
                   spectral, results, exitCode, output>>

\* index.ts:707: spectral.run settles inside runInDirectory.
RunSpectralSettles(i) ==
    /\ mainpc = "pMap"
    /\ pc[i] = "spectral.run"
    /\ \E resolved \in BOOLEAN :
         IF resolved THEN LeaveDirectory(i, "ran") ELSE CallbackRejects(i)
    /\ UNCHANGED <<files, isAutoDetectedFiles, mainpc, fileText, contents, config,
                   spectral, results, exitCode, output>>

\* index.ts:738-745 and cli.ts:73: validate and formatResultsAsObject build
\* the Result (or validate throws) and the mapper returns [file, result].
LintFileReturns(i) ==
    /\ mainpc = "pMap"
    /\ pc[i] = "ran"
    /\ \/ \E result \in ResultPool :
            /\ settled' = [settled EXCEPT ![i] =
                              [tag |-> "fulfilled", value |-> <<files[i], result>>]]
            /\ pc' = [pc EXCEPT ![i] = "settled"]
            /\ engineCalls' =
                  [engineCalls EXCEPT ![i] =
                      @ \o <<Call("validate", config[i]),
                             Call("formatResultsAsObject", contents[i])>>]
            /\ UNCHANGED <<console, originalWorkingDirectory>>
       \/ /\ Reject(i, Error(EngineFailure))
          /\ engineCalls' =
                [engineCalls EXCEPT ![i] = Append(@, Call("validate", config[i]))]
    /\ UNCHANGED <<files, isAutoDetectedFiles, mainpc, cwd, fileText, contents, config,
                   spectral, results, exitCode, output>>

\* Mutant of Collected: the first rejected mapper drops every later value.
RECURSIVE CollectedUntilFailure(_, _)
CollectedUntilFailure(outcomes, n) ==
    IF n = 0 THEN <<>>
    ELSE IF \A k \in 1..n : outcomes[k].tag = "fulfilled"
         THEN Append(CollectedUntilFailure(outcomes, n - 1), outcomes[n].value)
         ELSE CollectedUntilFailure(outcomes, n - 1)

\* p-map: the values of the fulfilled mappers in input order, pMapSkip left out
RECURSIVE Collected(_, _)
Collected(outcomes, n) ==
    IF n = 0 THEN <<>>
    ELSE IF outcomes[n].tag = "fulfilled"
         THEN Append(Collected(outcomes, n - 1), outcomes[n].value)
         ELSE Collected(outcomes, n - 1)

\* cli.ts:71: pMap resolves once every mapper has settled.
PMapResolves ==
    /\ mainpc = "pMap"
    /\ \A i \in Tasks : pc[i] = "settled"
    /\ results' = Collected(settled, Len(files))
    /\ mainpc' = "report"
    /\ UNCHANGED <<files, isAutoDetectedFiles, pc, cwd, originalWorkingDirectory,
                   fileText, contents, config, spectral, engineCalls, settled,
                   console, exitCode, output>>

\* cli.ts:92
SomeErrors(rs) == \E i \in 1..Len(rs) : Len(BucketOf(rs[i][2], "errors")) > 0

\* cli.ts:83-96.  An exception formatResults throws is uncaught: Node ends
\* the process with status 1 and console.log is never reached.
Report ==
    /\ mainpc = "report"
    /\ mainpc' = "exited"
    /\ \E verbose, isTTY \in BOOLEAN :
         LET dumped == IF verbose THEN Append(console, [kind |-> "verbose"]) ELSE console
         IN  IF Len(results) = 0
             THEN /\ console' = Append(dumped, [kind |-> "notice", text |-> "No files to lint"])
                  /\ exitCode' = 2
                  /\ UNCHANGED <<results, output>>
             ELSE /\ results' = SortedInPlace(results)
                  /\ IF FormatResultsThrows(results)
                     THEN /\ exitCode' = 1
                          /\ console' = dumped
                          /\ UNCHANGED output
                     ELSE /\ exitCode' = IF SomeErrors(results) THEN 1 ELSE exitCode
                          /\ output' = formatResults(results, isTTY)
                          /\ console' = Append(dumped, [kind |-> "report",
                                                        text |-> formatResults(results, isTTY)])
    /\ UNCHANGED <<files, isAutoDetectedFiles, pc, cwd, originalWorkingDirectory,
                   fileText, contents, config, spectral, engineCalls, settled>>

Next ==
    \/ ConfigInvalid
    \/ StartPMap
    \/ \E i \in Tasks : ReadFile(i)
    \/ \E i \in Tasks : SetupSettles(i)
    \/ \E i \in Tasks : BuildSwaggerSettles(i)
    \/ \E i \in Tasks : CallRunSpectral(i)
    \/ \E i \in Tasks : RunSpectralSettles(i)
    \/ \E i \in Tasks : LintFileReturns(i)
    \/ PMapResolves
    \/ Report

Spec == Init /\ [][Next]_vars

(***************************************************************************)
(* lintFile as a library call (index.ts exports it): a caller maps         *)
(* lintFile over its files as cli.ts:71-81 does, giving each call a        *)
(* configuration of its own, and awaits the calls.                         *)
(***************************************************************************)
LintFiles == <<PathList[1], PathList[3], PathList[2]>>

InitLint ==
    /\ \E n \in 1..MaxCalls : files = SubSeq(LintFiles, 1, n)
    /\ isAutoDetectedFiles = FALSE
    /\ mainpc = "pMap"
    /\ pc = [i \in 1..Len(files) |-> "readFile"]
    /\ cwd = StartDirectory
    /\ originalWorkingDirectory = [i \in 1..Len(files) |-> StartDirectory]
    /\ fileText = [i \in 1..Len(files) |-> NotRead]
    /\ contents = [i \in 1..Len(files) |-> NotRead]
    /\ config \in [1..Len(files) -> OverridePool]
    /\ spectral = NoRuleset
    /\ engineCalls = [i \in 1..Len(files) |-> <<>>]
    /\ settled = [i \in 1..Len(files) |-> Pending]
    /\ results = <<>>
    /\ console = <<>>
    /\ exitCode = 0
    /\ output = <<>>

NextLint ==
    \/ \E i \in Tasks : ReadFile(i)
    \/ \E i \in Tasks : SetupSettles(i)
    \/ \E i \in Tasks : BuildSwaggerSettles(i)
    \/ \E i \in Tasks : CallRunSpectral(i)
    \/ \E i \in Tasks : RunSpectralSettles(i)
    \/ \E i \in Tasks : LintFileReturns(i)

SpecLint == InitLint /\ [][NextLint]_vars

(***************************************************************************)
(* formatResults as a library call (index.ts exports it): a caller builds  *)
(* a collection of [file, Result] pairs and calls formatResults on it.     *)
(* Each message is given the rule identifier of its place in its bucket,   *)
(* so that two messages of one bucket are never equal.                     *)
(***************************************************************************)
EmptyResult == [version |-> "3.0.0"]

FullResult ==
    [version |-> "3.0.0", errors |-> <<>>, warnings |-> <<>>, infos |-> <<>>, hints |-> <<>>]

MessageCount(rs) ==
    LET present == [i \in 1..Len(rs) |->
                      [version  |-> rs[i][2].version,
                       errors   |-> BucketOf(rs[i][2], "errors"),
                       warnings |-> BucketOf(rs[i][2], "warnings"),
                       infos    |-> BucketOf(rs[i][2], "infos"),
                       hints    |-> BucketOf(rs[i][2], "hints")]]
    IN  GrandTotal([i \in 1..Len(rs) |-> <<rs[i][1], present[i]>>])

WithMessage(result, key, m) ==
    LET rule == "rule-" \o ToString(Len(BucketOf(result, key)) + 1)
        bucket == Append(BucketOf(result, key),
                         [line |-> m.line, message |-> m.message, rule |-> rule])
    IN  [k \in DOMAIN result \cup {key} |-> IF k = key THEN bucket ELSE result[k]]

InitFormat ==
    /\ files = <<>>
    /\ isAutoDetectedFiles = FALSE
    /\ mainpc = "caller"
    /\ pc = <<>>
    /\ cwd = StartDirectory
    /\ originalWorkingDirectory = <<>>
    /\ fileText = <<>>
    /\ contents = <<>>
    /\ config = <<>>
    /\ spectral = NoRuleset
    /\ engineCalls = <<>>
    /\ settled = <<>>
    /\ results = <<>>
    /\ console = <<>>
    /\ exitCode = 0
    /\ output = <<>>

CallerUnchanged ==
    UNCHANGED <<files, isAutoDetectedFiles, pc, cwd, originalWorkingDirectory,
                fileText, contents, config, spectral, engineCalls, settled, console,
                exitCode>>

\* The caller adds a pair for the next file, its buckets absent or empty.
AddResult ==
    /\ mainpc = "caller"
    /\ Len(results) < MaxFiles
    /\ \E result \in {EmptyResult, FullResult} :
         results' = Append(results, <<PathList[Len(results) + 1], result>>)
    /\ UNCHANGED <<mainpc, output>>
    /\ CallerUnchanged

\* The caller adds a message to a bucket of one of the Results.
AddMessage ==
    /\ mainpc = "caller"
    /\ MessageCount(results) < MaxMessages
    /\ \E i \in 1..Len(results), key \in Buckets, m \in MessagePool :
         results' = [results EXCEPT ![i] = <<@[1], WithMessage(@[2], key, m)>>]
    /\ UNCHANGED <<mainpc, output>>
    /\ CallerUnchanged

\* formatResults(results): the caller's buckets are sorted in place; the call
\* returns the report or throws the RangeError of a negative repeat count.
CallFormatResults ==
    /\ mainpc = "caller"
    /\ results' = SortedInPlace(results)
    /\ \E isTTY \in BOOLEAN :
         IF FormatResultsThrows(results)
         THEN /\ mainpc' = "threw"
              /\ UNCHANGED output
         ELSE /\ mainpc' = "returned"
              /\ output' = formatResults(results, isTTY)
    /\ CallerUnchanged

NextFormat ==
    \/ AddResult
    \/ AddMessage
    \/ CallFormatResults

SpecFormat == InitFormat /\ [][NextFormat]_vars

(***************************************************************************)
(* Claims about the command-line run (specification Spec).                 *)
(***************************************************************************)
InRunInDirectory(i) == pc[i] \in {"buildSwaggerObject", "spectral.run"}

\* The directory that contains files[i].
ContainingDirectory(i) == Resolve(StartDirectory, DirName(files[i]))

\* C1: whenever a runInDirectory call ends, by its callback resolving or by
\* its callback rejecting, the working directory is again the one the call
\* found when it started.
C1_RestoredOnEveryExit ==
    [][\A i \in Tasks :
         (InRunInDirectory(i) /\ pc'[i] # pc[i]) => cwd' = originalWorkingDirectory[i]]_vars

\* C2: while the delegated engine call for a file is in progress, between
\* runInDirectory's chdir and its restore, the working directory is the
\* directory that contains that file.
C2_DirectoryHeldDuringEngineCall ==
    \A i \in Tasks : InRunInDirectory(i) => cwd = ContainingDirectory(i)

EntriesFor(i) == {k \in 1..Len(results) : results[k][1] = files[i]}

ConfigWasInvalid == \A i \in Tasks : pc[i] = "idle"

HasErrors(result) == "errors" \in DOMAIN result /\ Len(result.errors) > 0

\* C4: the process ends with status 2 when the configuration is invalid or
\* no file was linted successfully, with 1 when some linted file has an
\* error, and with 0 otherwise.
C4_ExitStatus ==
    mainpc = "exited" =>
        exitCode = IF ConfigWasInvalid \/ Len(results) = 0 THEN 2
                   ELSE IF \E k \in 1..Len(results) : HasErrors(results[k][2]) THEN 1
                   ELSE 0

LoggedFor(i) == {k \in 1..Len(console) : console[k].kind = "error" /\ console[k].task = i}

WasParsed(i) ==
    /\ contents[i] # NotRead
    /\ contents[i].syntaxOk
    /\ ExtName(files[i]) \in {"json", "yaml", "yml"}

NoDescriptor(value) ==
    /\ "openapi" \notin DOMAIN value
    /\ ~("swagger" \in DOMAIN value /\ value.swagger = "2.0")

\* C5: a file that parses but has neither an openapi field nor swagger "2.0"
\* is left out of the results; its descriptor-missing message is printed
\* when the files were named on the command line and nothing is printed for
\* it when they were auto-detected.  Every other per-file error is printed
\* in both modes.
C5_DescriptorErrorLogging ==
    \A i \in Tasks :
        /\ (WasParsed(i) /\ NoDescriptor(contents[i].value)) =>
             /\ settled[i].tag = "rejected"
             /\ isAutoDetectedFiles => LoggedFor(i) = {}
             /\ ~isAutoDetectedFiles =>
                  /\ LoggedFor(i) # {}
                  /\ \A k \in LoggedFor(i) : console[k].text = DescriptorMissing
        /\ (settled[i].tag = "rejected" /\ settled[i].error.message # DescriptorMissing) =>
             \E k \in LoggedFor(i) : console[k].text = settled[i].error.message

\* C6: lintFile goes on to the delegated engines only for a json, yaml or
\* yml file whose document has an openapi field or swagger "2.0"; a file of
\* another extension fails with the unsupported-format error and a parsed
\* document without a descriptor with the descriptor-missing error, and in
\* both cases no engine is invoked and no Lint Result is returned.
C6_LintFileAccepts ==
    \A i \in Tasks :
        /\ engineCalls[i] # <<>> =>
             /\ ExtName(files[i]) \in {"json", "yaml", "yml"}
             /\ ~NoDescriptor(contents[i].value)
        /\ (contents[i] # NotRead /\ ExtName(files[i]) \notin {"json", "yaml", "yml"}) =>
             /\ settled[i] = [tag |-> "rejected", error |-> Error(UnableToParse)]
             /\ engineCalls[i] = <<>>
        /\ (WasParsed(i) /\ NoDescriptor(contents[i].value)) =>
             /\ settled[i] = [tag |-> "rejected", error |-> Error(DescriptorMissing)]
             /\ engineCalls[i] = <<>>

\* The per-file tasks that have been started and have not settled.
InProgress == {i \in Tasks : pc[i] \notin {"idle", "settled"}}

\* A fixed limit says something about the file lists considered here only
\* if it is below the length of the longest of them.
ConcurrencyLimit == MaxFiles - 1

\* C13: the number of per-file tasks in progress at the same time never
\* exceeds a fixed limit, however many files there are.
C13_ConcurrencyCapped == Cardinality(InProgress) <= ConcurrencyLimit

\* C14: nothing is printed, neither the report, the verbose dump or the
\* notice nor a per-file error message, while some per-file task has not
\* settled.
C14_NothingPrintedWhilePending ==
    (\E i \in Tasks : pc[i] # "settled") => console = <<>>

\* C18: once every task has settled, every delegated call having succeeded
\* and every lintFile call having returned its Result, the working directory
\* is the one the run started in.
C18_DirectoryRestoredAfterRun ==
    (\A i \in Tasks : pc[i] = "settled" /\ settled[i].tag = "fulfilled")
        => cwd = StartDirectory

(***************************************************************************)
(* Claims about lintFile (specification SpecLint).                         *)
(***************************************************************************)
\* The paths of the leaves of a configuration.
RECURSIVE LeafPaths(_)
LeafPaths(config_) ==
    IF config_.type = "object"
    THEN UNION {{<<k>> \o p : p \in LeafPaths(config_.fields[k])} : k \in DOMAIN config_.fields}
    ELSE {<<>>}

\* C12: the configuration lintFile goes on with is the default overridden
\* leaf by leaf: every leaf the caller's configuration specifies has the
\* caller's value, every other leaf of the default keeps its default value,
\* there is no other leaf, and an empty configuration gives the default.
C12_MergedLeafByLeaf ==
    [][\A i \in Tasks :
          (pc[i] = "readFile" /\ pc'[i] = "setup") =>
              LET override  == config[i]
                  effective == config'[i]
              IN  /\ \A p \in LeafPaths(override) :
                       Lookup(effective, p) = Lookup(override, p)
                  /\ \A p \in LeafPaths(defaultConfig) \ LeafPaths(override) :
                       Lookup(effective, p) = Lookup(defaultConfig, p)
                  /\ LeafPaths(effective) = LeafPaths(override) \cup LeafPaths(defaultConfig)
                  /\ override = Object(<<>>) => effective = defaultConfig
                  /\ engineCalls'[i] = <<Call("setup", effective)>>]_vars

\* A call goes on with openapi-tags switched off by its caller and the
\* other rules of the category, and of the other categories, at their
\* defaults.
C12_Witness ==
    \E i \in Tasks :
        /\ pc[i] = "setup"
        /\ Lookup(config[i], <<"spectral", "rules", "openapi-tags">>) = Value("off")
        /\ Lookup(config[i], <<"spectral", "rules", "operation-description">>) = Value("hint")
        /\ Lookup(config[i], <<"shared", "operations", "no_summary">>) = Value("warning")

\* C19: while spectral.run is in progress for a call, the rules loaded in
\* the Spectral instance are those of that call's own configuration.
C19_RunUsesOwnRuleset ==
    \A i \in Tasks : pc[i] = "spectral.run" => spectral = RulesetOf(config[i])

IsPrefix(s, t) == Len(s) <= Len(t) /\ s = SubSeq(t, 1, Len(s))

EngineNames(i) == [k \in 1..Len(engineCalls[i]) |-> engineCalls[i][k].engine]

StepsOfLintFile ==
    <<"setup", "buildSwaggerObject", "spectral.run", "validate", "formatResultsAsObject">>

Supported(i) == ExtName(files[i]) \in {"json", "yaml", "yml"}

\* C20: the text lintFile parses is the file's text without its byte-order
\* mark and preprocessed; the delegated calls are made only for a parsed
\* document that passed the descriptor check, in the order setup,
\* buildSwaggerObject, spectral.run, validate, formatResultsAsObject, all
\* five when the call returns a Result; and spectral.run and
\* formatResultsAsObject are given the very text that was parsed.
C20_StepsInOrder ==
    \A i \in Tasks :
        /\ fileText[i] # NotRead =>
             /\ contents[i] = [bom |-> FALSE, tabs |-> FALSE,
                                syntaxOk |-> fileText[i].syntaxOk,
                                value |-> fileText[i].value]
             /\ (Supported(i) /\ fileText[i].syntaxOk /\ ~NoDescriptor(fileText[i].value)
                  /\ fileText[i].value.type = "object")
                    => engineCalls[i] # <<>>
             /\ (Supported(i) /\ ~fileText[i].syntaxOk)
                    => settled[i] = [tag |-> "rejected", error |-> Error(SyntaxErrorMessage)]
        /\ IsPrefix(EngineNames(i), StepsOfLintFile)
        /\ engineCalls[i] # <<>> =>
             /\ fileText[i] # NotRead
             /\ Supported(i) /\ contents[i].syntaxOk
             /\ HasDescriptor(contents[i].value)
        /\ settled[i].tag = "fulfilled" => EngineNames(i) = StepsOfLintFile
        /\ \A k \in 1..Len(engineCalls[i]) :
             /\ engineCalls[i][k].engine \in {"spectral.run", "formatResultsAsObject"}
                  => engineCalls[i][k].argument = contents[i]
             /\ engineCalls[i][k].engine = "buildSwaggerObject"
                  => engineCalls[i][k].argument = contents[i].value

\* A JSON file that starts with a byte-order mark was linted, all five
\* delegated calls made.
C20_Witness ==
    \E i \in Tasks :
        /\ settled[i].tag = "fulfilled"
        /\ ExtName(files[i]) = "json"
        /\ fileText[i].bom
        /\ Len(engineCalls[i]) = 5

(***************************************************************************)
(* Claims about formatResults (specification SpecFormat).                  *)
(***************************************************************************)
\* The places of the messages of a collection: <<pair, bucket, index>>.
MessagePlaces(rs) ==
    UNION { UNION { {<<i, key, j>> : j \in 1..Len(rs[i][2][key])} :
                    key \in Buckets \cap DOMAIN rs[i][2] } :
            i \in 1..Len(rs) }

CountIn(rs, key) == Cardinality({p \in MessagePlaces(rs) : p[2] = key})

\* C7: formatResults returns the empty string when the collection holds no
\* message at all, and a non-empty string when it holds at least one.
C7_EmptyIffNoMessages ==
    mainpc \in {"returned", "threw"} =>
        /\ mainpc = "returned"
        /\ (output = <<>>) <=> (MessagePlaces(results) = {})

IsBlock(c) == c.chunk = "block"

IsStatistic(c) == c.chunk = "statistic"

\* The numbers of errors, warnings, infos and hints of a Result.
Counts(result) ==
    [k \in 1..4 |->
        LET key == <<"errors", "warnings", "infos", "hints">>[k]
        IN  IF key \in DOMAIN result THEN Len(result[key]) ELSE 0]

CountsOfFile(file) ==
    Counts(results[CHOOSE k \in 1..Len(results) : results[k][1] = file][2])

LexLess(s, t) == \E p \in 1..4 : s[p] < t[p] /\ \A q \in 1..(p - 1) : s[q] = t[q]

\* C8: in the report the per-file blocks are in descending lexicographic
\* order of (errors, warnings, infos, hints): no block comes before a block
\* of a greater tuple.
C8_BlocksDescending ==
    mainpc = "returned" =>
        LET blocks == SelectSeq(output, IsBlock)
        IN  \A a, b \in 1..Len(blocks) :
                a < b => ~LexLess(CountsOfFile(blocks[a].file), CountsOfFile(blocks[b].file))

\* The second file, with one error, is printed before the first, with two
\* warnings.
C8_Witness ==
    /\ mainpc = "returned"
    /\ Len(results) = 2
    /\ Counts(results[1][2]) = <<0, 2, 0, 0>>
    /\ Counts(results[2][2]) = <<1, 0, 0, 0>>
    /\ LET blocks == SelectSeq(output, IsBlock)
       IN  Len(blocks) = 2 /\ blocks[1].file = results[2][1]

MessageOf(line) == [line |-> line.line, message |-> line.message, rule |-> line.rule]

\* `sorted` holds the elements of `bucket`, each once, in ascending line
\* order, elements of equal line in the order they have in `bucket`.
IsStableSortOf(sorted, bucket) ==
    /\ Len(sorted) = Len(bucket)
    /\ \E from \in [1..Len(bucket) -> 1..Len(bucket)] :
         /\ \A j, k \in 1..Len(bucket) : j # k => from[j] # from[k]
         /\ \A j \in 1..Len(bucket) : sorted[j] = bucket[from[j]]
         /\ \A j, k \in 1..Len(bucket) :
              j < k => \/ bucket[from[j]].line < bucket[from[k]].line
                       \/ /\ bucket[from[j]].line = bucket[from[k]].line
                          /\ from[j] < from[k]

\* The lines of `block` are the hints, infos, warnings and errors of
\* `result`, in that order, each bucket stable-sorted by line.
BlockShows(block, result) ==
    LET hints    == BucketOf(result, "hints")
        infos    == BucketOf(result, "infos")
        warnings == BucketOf(result, "warnings")
        errors   == BucketOf(result, "errors")
        shown    == [j \in 1..Len(block.lines) |-> MessageOf(block.lines[j])]
        h == Len(hints)
        i == h + Len(infos)
        w == i + Len(warnings)
        e == w + Len(errors)
    IN  /\ Len(shown) = e
        /\ IsStableSortOf(SubSeq(shown, 1, h), hints)
        /\ IsStableSortOf(SubSeq(shown, h + 1, i), infos)
        /\ IsStableSortOf(SubSeq(shown, i + 1, w), warnings)
        /\ IsStableSortOf(SubSeq(shown, w + 1, e), errors)
        /\ \A j \in 1..e :
             block.lines[j].type = IF j <= i THEN "info"
                                   ELSE IF j <= w THEN "warning" ELSE "error"

\* C9: in a report formatResults returns, every file has one block, whose
\* lines are the file's hints, then its infos, its warnings and its errors,
\* each bucket in ascending line order with equal lines in input order, every
\* message of the input once.
C9_BlockLines ==
    [][(mainpc = "caller" /\ mainpc' = "returned" /\ output' # <<>>) =>
         LET blocks == SelectSeq(output', IsBlock)
         IN  /\ Len(blocks) = Len(results)
             /\ \A k \in 1..Len(results) :
                  \E b \in 1..Len(blocks) :
                     /\ blocks[b].file = results[k][1]
                     /\ BlockShows(blocks[b], results[k][2])]_vars

\* A bucket given as lines 10, 2, 2 is printed as 2, 2, 10, the two
\* messages of line 2 in their input order.
C9_Witness ==
    /\ mainpc = "returned"
    /\ \E c \in 1..Len(output) :
         /\ output[c].chunk = "block"
         /\ [j \in 1..Len(output[c].lines) |->
               <<output[c].lines[j].type, output[c].lines[j].line, output[c].lines[j].rule>>]
            = << <<"warning", 2, "rule-2">>, <<"warning", 2, "rule-3">>,
                 <<"warning", 10, "rule-1">> >>

FooterLine(singular, plural, total) ==
    IF total = 0 THEN <<>>
    ELSE <<ToString(total) \o " " \o (IF total = 1 THEN singular ELSE plural)>>

ExpectedFooter ==
    FooterLine("hint", "hints", CountIn(results, "hints"))
    \o FooterLine("info", "infos", CountIn(results, "infos"))
    \o FooterLine("warning", "warnings", CountIn(results, "warnings"))
    \o FooterLine("error", "errors", CountIn(results, "errors"))

\* C10: the report ends with the statistics: for hints, infos, warnings and
\* errors, in this order, one line for each severity whose total over all
\* files is not zero, showing that total and the noun, singular for 1 and
\* plural otherwise.
C10_StatisticsFooter ==
    (mainpc = "returned" /\ output # <<>>) =>
        LET footer == SelectSeq(output, IsStatistic)
            first  == Len(output) - Len(footer) + 1
        IN  /\ [k \in 1..Len(footer) |-> footer[k].text] = ExpectedFooter
            /\ \A c \in 1..Len(output) : IsStatistic(output[c]) <=> c >= first

\* Two warnings and one error: "2 warnings" then "1 error".
C10_Witness ==
    /\ mainpc = "returned"
    /\ LET footer == SelectSeq(output, IsStatistic)
       IN  [k \in 1..Len(footer) |-> footer[k].text] = <<"2 warnings", "1 error">>

\* The lines formatLine is called for when formatResults is given `rs`.
PrintedLines(rs) ==
    LET blocks == Blocks(SortedBuckets(rs))
    IN  UNION {{blocks[b].lines[j] : j \in 1..Len(blocks[b].lines)} : b \in 1..Len(blocks)}

\* C11: formatResults returns for every collection, and the right padding
\* count of every line it prints, of every severity, the computed message
\* width minus the width of the line's message, is not negative.
C11_RightPaddingNonNegative ==
    mainpc \in {"returned", "threw"} =>
        /\ mainpc = "returned"
        /\ \A line \in PrintedLines(results) : line.padRight >= 0

\* The rendered widths of the line numbers of all messages of a collection.
LineWidths(rs) ==
    {stringWidth(ToString(rs[p[1]][2][p[2]][p[3]].line)) : p \in MessagePlaces(rs)}

TrueMaxLineWidth(rs) ==
    LET widths == LineWidths(rs)
    IN  IF widths = {} THEN 0
        ELSE CHOOSE w \in widths : \A v \in widths : v <= w

\* C16: the line-number column width formatResults computes from the last
\* element of each sorted bucket is the greatest rendered width of any
\* message's line number, so the left padding count of every line is not
\* negative and pads the line number to that width.
C16_LineWidthIsMaximum ==
    mainpc \in {"returned", "threw"} =>
        LET widest == TrueMaxLineWidth(results)
        IN  /\ MaxLineWidth(SortedBuckets(results)) = widest
            /\ \A line \in PrintedLines(results) :
                 /\ line.padLeft >= 0
                 /\ line.padLeft + stringWidth(ToString(line.line)) = widest

\* A report with a line 2 padded by one space next to a line 10.
C16_Witness ==
    /\ mainpc = "returned"
    /\ \E c \in 1..Len(output) :
         /\ output[c].chunk = "block"
         /\ \E j, k \in 1..Len(output[c].lines) :
              /\ output[c].lines[j].line = 2 /\ output[c].lines[j].padLeft = 1
              /\ output[c].lines[k].line = 10 /\ output[c].lines[k].padLeft = 0

\* C17: a formatResults call leaves the caller's collection as it was: the
\* pairs in the same order and every bucket's messages in the same order.
C17_CallerCollectionUnchanged ==
    [][(mainpc = "caller" /\ mainpc' # "caller") => results' = results]_vars

====
